---- MODULE Spec2Model ----
(***************************************************************************)
(* Model of the experiment dashboard's comparison panel                    *)
(* (src/src/components/ComparisonPanel.tsx): the numeric-column index, the *)
(* aligned chart series and the summary statistics, as the component       *)
(* computes them on every render from its props and its selected metric.   *)
(***************************************************************************)
EXTENDS Integers, Sequences, FiniteSets, TLC

VARIABLES
  experiments,       \* props.experiments: the list handed to ComparisonPanel
  comparisonMetric,  \* useState<string>('')
  allDataColumns,    \* useMemo: numeric columns over all experiments
  chartData,         \* useMemo: the aligned records
  lineSeries,        \* the <Line> elements rendered in the chart
  summary,           \* the rows of the Summary Statistics table
  selectedExperimentForPlot,  \* PlotPanel: useState<string>('')
  availableColumns,  \* PlotPanel useMemo: the columns offered as axes
  xAxis,             \* PlotPanel: useState<string>('')
  yAxis,             \* PlotPanel: useState<string>('')
  plotData,          \* PlotPanel useMemo: the projected records
  heap,              \* the objects in memory: reference -> fields
  plotRefs,          \* the references of the records of plotData
  chartRefs,         \* the references of the records of chartData
  dashboardExperiments,  \* Dashboard: useState<Experiment[]>, the store
  selectedExperiments,   \* Dashboard: useState<string[]>([])
  activeView,        \* Dashboard: useState<'grid' | 'plot' | 'compare'>
  now,               \* the clock behind Date.now(), in ms from ClockStart
  operations,        \* the number of changes made to the store so far
  showUploadDialog,  \* ExperimentCard: useState(false), of the card DialogCard
  uploadedFile,      \* ExcelUploadDialog: useState<File | null>(null)
  parsedData,        \* ExcelUploadDialog: useState<any[] | null>(null)
  isProcessing,      \* ExcelUploadDialog: useState(false)
  pendingParses,     \* the handleFiles calls waiting on their 1500 ms timer
  toastTitle,        \* the title of the toast shown last
  showCreateDialog,  \* Dashboard: useState(false)
  formData,          \* CreateExperimentDialog: useState({name: '', ...})
  newTag             \* CreateExperimentDialog: useState('')

comparisonVars == <<comparisonMetric, allDataColumns, chartData, lineSeries, summary>>
plotVars == <<selectedExperimentForPlot, availableColumns, xAxis, yAxis, plotData>>
heapVars == <<heap, plotRefs, chartRefs>>
uploadVars == <<showUploadDialog, uploadedFile, parsedData, isProcessing, pendingParses, toastTitle>>
createVars == <<showCreateDialog, formData, newTag>>
dashboardVars == <<dashboardExperiments, selectedExperiments, activeView, now, operations,
                   uploadVars, createVars>>
vars == <<experiments, comparisonVars, plotVars, heapVars, dashboardVars>>

----------------------------------------------------------------------------
(* Bounds of the model *)

\* Total number of rows over all datasets of the list.
MaxTotalRows == 3

\* The number of changes made to the store in one behaviour
MaxOperations == 3

\* The number of parses in flight at once
MaxPending == 2

----------------------------------------------------------------------------
(* JavaScript values held in the cells of a row: number, string, undefined *)

N(n) == [type |-> "number", num |-> n, str |-> ""]
S(s) == [type |-> "string", num |-> 0, str |-> s]
Undefined == [type |-> "undefined", num |-> 0, str |-> ""]

typeof(val) == val.type

\* A row is an object: its own keys in insertion order, each with a value.
KV(k, val) == [key |-> k, val |-> val]

\* Object.prototype.hasOwnProperty.call(row, k)
hasOwnProperty(row, k) == \E j \in 1..Len(row) : row[j].key = k

\* row[k]: the value of the own key k, undefined when the key is missing
Get(row, k) ==
  IF hasOwnProperty(row, k)
  THEN row[CHOOSE j \in 1..Len(row) : row[j].key = k].val
  ELSE Undefined

\* Object.keys(row): own keys in insertion order
ObjectKeys(row) == [j \in 1..Len(row) |-> row[j].key]

\* exp.data: any[] | undefined
NoData == [defined |-> FALSE, rows |-> <<>>]
Data(rows) == [defined |-> TRUE, rows |-> rows]

----------------------------------------------------------------------------
(* JavaScript numbers produced by the arithmetic of the statistics: exact  *)
(* rationals in lowest terms, the two infinities and NaN                   *)

Abs(a) == IF a < 0 THEN -a ELSE a

RECURSIVE GCD(_, _)
GCD(a, b) == IF b = 0 THEN a ELSE GCD(b, a % b)

NaN == [kind |-> "nan", num |-> 0, den |-> 1]
PosInfinity == [kind |-> "inf", num |-> 1, den |-> 1]
NegInfinity == [kind |-> "inf", num |-> -1, den |-> 1]

\* n/d with d > 0, in lowest terms
Fin(n, d) ==
  LET g == GCD(Abs(n), d)
  IN [kind |-> "fin", num |-> n \div g, den |-> d \div g]

IsFin(a) == a.kind = "fin"
Sign(a) == IF a.num > 0 THEN 1 ELSE IF a.num < 0 THEN -1 ELSE 0

\* a + b
NumAdd(a, b) ==
  IF IsFin(a) /\ IsFin(b) THEN Fin(a.num * b.den + b.num * a.den, a.den * b.den)
  ELSE IF a.kind = "nan" \/ b.kind = "nan" THEN NaN
  ELSE IF IsFin(a) THEN b
  ELSE IF IsFin(b) \/ a = b THEN a
  ELSE NaN

\* a - b
NumSub(a, b) == NumAdd(a, [b EXCEPT !.num = -b.num])

\* a * b
NumMul(a, b) ==
  IF IsFin(a) /\ IsFin(b) THEN Fin(a.num * b.num, a.den * b.den)
  ELSE IF a.kind = "nan" \/ b.kind = "nan" \/ Sign(a) * Sign(b) = 0 THEN NaN
  ELSE IF Sign(a) * Sign(b) > 0 THEN PosInfinity ELSE NegInfinity

\* a / b: 0/0 is NaN, x/0 is an infinity of the sign of x
NumDiv(a, b) ==
  IF a.kind = "nan" \/ b.kind = "nan" THEN NaN
  ELSE IF IsFin(a) /\ IsFin(b) THEN
    IF b.num = 0
    THEN IF a.num = 0 THEN NaN ELSE IF a.num > 0 THEN PosInfinity ELSE NegInfinity
    ELSE Fin(Sign(b) * a.num * b.den, a.den * Abs(b.num))
  ELSE IF IsFin(b) THEN (IF Sign(a) * Sign(b) >= 0 THEN a ELSE [a EXCEPT !.num = -a.num])
  ELSE IF IsFin(a) THEN Fin(0, 1)
  ELSE NaN

\* a < b on the extended line (false when either is NaN)
NumLess(a, b) ==
  IF a.kind = "nan" \/ b.kind = "nan" THEN FALSE
  ELSE IF IsFin(a) /\ IsFin(b) THEN a.num * b.den < b.num * a.den
  ELSE IF IsFin(a) THEN b.num > 0
  ELSE IF IsFin(b) THEN a.num < 0
  ELSE a.num < b.num

\* Math.pow(a, 2)
MathPow2(a) == NumMul(a, a)

\* Math.sqrt(a): kept symbolic, the root of a non-negative rational
MathSqrt(a) ==
  IF a.kind = "nan" \/ a.num < 0 THEN NaN
  ELSE IF a.kind = "inf" THEN PosInfinity
  ELSE [kind |-> "sqrt", num |-> a.num, den |-> a.den]

\* A slip: the first argument taken for the smallest (values[0])
MathMinOfFirst(s) == IF Len(s) = 0 THEN PosInfinity ELSE Head(s)

\* Math.min(...s) over numbers: +Infinity for no argument
RECURSIVE MathMin(_)
MathMin(s) ==
  IF Len(s) = 0 THEN PosInfinity
  ELSE LET rest == MathMin(Tail(s))
       IN IF Head(s).kind = "nan" \/ rest.kind = "nan" THEN NaN
          ELSE IF NumLess(rest, Head(s)) THEN rest ELSE Head(s)

\* A slip: the first argument taken for the largest (the first dataset's length)
MathMaxOfFirst(s) == IF Len(s) = 0 THEN NegInfinity ELSE Head(s)

\* Math.max(...s) over numbers: -Infinity for no argument
RECURSIVE MathMax(_)
MathMax(s) ==
  IF Len(s) = 0 THEN NegInfinity
  ELSE LET rest == MathMax(Tail(s))
       IN IF Head(s).kind = "nan" \/ rest.kind = "nan" THEN NaN
          ELSE IF NumLess(Head(s), rest) THEN rest ELSE Head(s)

\* The number held by a cell of numeric type
ToNum(val) == Fin(val.num, 1)

----------------------------------------------------------------------------
(* ComparisonPanel: what one render computes from props and state *)

\* exp.data && exp.data.length > 0
HasRows(exp) == exp.data.defined /\ Len(exp.data.rows) > 0

\* columns.add(key) on a Set, kept in insertion order
SetAdd(columns, key) ==
  IF \E j \in 1..Len(columns) : columns[j] = key THEN columns ELSE Append(columns, key)

\* Object.keys(exp.data[0]).forEach(key => { if (typeof ... === 'number') columns.add(key) })
RECURSIVE AddNumericKeys(_, _, _)
AddNumericKeys(columns, row, keys) ==
  IF Len(keys) = 0 THEN columns
  ELSE AddNumericKeys(
         IF typeof(Get(row, Head(keys))) = "number" THEN SetAdd(columns, Head(keys)) ELSE columns,
         row, Tail(keys))

\* experiments.forEach(exp => { if (exp.data && exp.data.length > 0) ... })
RECURSIVE CollectDataColumns(_, _)
CollectDataColumns(columns, exps) ==
  IF Len(exps) = 0 THEN columns
  ELSE CollectDataColumns(
         IF HasRows(Head(exps))
         THEN AddNumericKeys(columns, Head(exps).data.rows[1], ObjectKeys(Head(exps).data.rows[1]))
         ELSE columns,
         Tail(exps))

\* the allDataColumns memo
AllDataColumns(exps) == CollectDataColumns(<<>>, exps)

\* the filter of the chartData memo (experimentsWithMetric)
HasMetric(exp, metric) == HasRows(exp) /\ hasOwnProperty(exp.data.rows[1], metric)

experimentsWithMetric(exps, metric) == SelectSeq(exps, LAMBDA exp : HasMetric(exp, metric))

\* point[key] = val
Put(point, key, val) ==
  [k \in DOMAIN point \cup {key} |-> IF k = key THEN val ELSE point[k]]

\* A slip: a slot written for every dataset, undefined past the dataset's end
RECURSIVE FillPointEverySlot(_, _, _, _)
FillPointEverySlot(point, exps, i, metric) ==
  IF Len(exps) = 0 THEN point
  ELSE FillPointEverySlot(
         Put(point, Head(exps).name,
             IF Head(exps).data.defined /\ i < Len(Head(exps).data.rows)
             THEN Get(Head(exps).data.rows[i + 1], metric)
             ELSE Undefined),
         Tail(exps), i, metric)

\* A slip: a name already written is not written again (first write wins)
RECURSIVE FillPointFirstWins(_, _, _, _)
FillPointFirstWins(point, exps, i, metric) ==
  IF Len(exps) = 0 THEN point
  ELSE FillPointFirstWins(
         IF /\ Head(exps).data.defined /\ i < Len(Head(exps).data.rows)
            /\ (Head(exps).name = "index" \/ Head(exps).name \notin DOMAIN point)
         THEN Put(point, Head(exps).name, Get(Head(exps).data.rows[i + 1], metric))
         ELSE point,
         Tail(exps), i, metric)

\* experimentsWithMetric.forEach(exp => { if (exp.data && i < exp.data.length) point[exp.name] = ... })
RECURSIVE FillPoint(_, _, _, _)
FillPoint(point, exps, i, metric) ==
  IF Len(exps) = 0 THEN point
  ELSE FillPoint(
         IF Head(exps).data.defined /\ i < Len(Head(exps).data.rows)
         THEN Put(point, Head(exps).name, Get(Head(exps).data.rows[i + 1], metric))
         ELSE point,
         Tail(exps), i, metric)

\* const point: any = { index: i } followed by the forEach
Point(exps, i, metric) == FillPoint([k \in {"index"} |-> N(i)], exps, i, metric)

\* exp.data!.length as a number
DataLength(exp) == Fin(Len(exp.data.rows), 1)

\* the chartData memo
ChartData(exps, metric) ==
  IF metric = "" THEN <<>>
  ELSE LET withMetric == experimentsWithMetric(exps, metric)
       IN IF Len(withMetric) = 0 THEN <<>>
          ELSE LET maxLength == MathMax([j \in 1..Len(withMetric) |-> DataLength(withMetric[j])]).num
               IN [j \in 1..maxLength |-> Point(withMetric, j - 1, metric)]

\* const colors = [...]
colors == <<"#2563EB", "#10B981", "#F59E0B", "#EF4444", "#8B5CF6", "#06B6D4">>

\* the filter in front of the <Line> elements
LineFilter(exp, metric) == HasRows(exp) /\ hasOwnProperty(exp.data.rows[1], metric)

\* A slip: the colour taken at the dataset's position in the unfiltered list
LineSeriesByListPosition(exps, metric, data) ==
  IF Len(data) > 0
  THEN LET shown == SelectSeq(exps, LAMBDA exp : LineFilter(exp, metric))
       IN [j \in 1..Len(shown) |->
             [key |-> shown[j].id, dataKey |-> shown[j].name,
              stroke |-> colors[(((CHOOSE h \in 1..Len(exps) : exps[h].id = shown[j].id) - 1)
                                % Len(colors)) + 1]]]
  ELSE <<>>

\* the <Line> elements, rendered when chartData.length > 0
LineSeries(exps, metric, data) ==
  IF Len(data) > 0
  THEN LET shown == SelectSeq(exps, LAMBDA exp : LineFilter(exp, metric))
       IN [j \in 1..Len(shown) |->
             [key |-> shown[j].id, dataKey |-> shown[j].name,
              stroke |-> colors[((j - 1) % Len(colors)) + 1]]]
  ELSE <<>>

\* A slip: the table asks for a number in the first row, the chart for the key
SummaryFilterNumeric(exp, metric) ==
  HasRows(exp) /\ typeof(Get(exp.data.rows[1], metric)) = "number"

\* the filter in front of the Summary Statistics rows
SummaryFilter(exp, metric) == HasRows(exp) /\ hasOwnProperty(exp.data.rows[1], metric)

\* A slip: every cell that is present is kept (val !== undefined)
ValuesPresent(exp, metric) ==
  LET cells == [j \in 1..Len(exp.data.rows) |-> Get(exp.data.rows[j], metric)]
      kept == SelectSeq(cells, LAMBDA val : typeof(val) # "undefined")
  IN [j \in 1..Len(kept) |-> ToNum(kept[j])]

\* exp.data!.map(row => row[metric]).filter(val => typeof val === 'number')
Values(exp, metric) ==
  LET cells == [j \in 1..Len(exp.data.rows) |-> Get(exp.data.rows[j], metric)]
      kept == SelectSeq(cells, LAMBDA val : typeof(val) = "number")
  IN [j \in 1..Len(kept) |-> ToNum(kept[j])]

\* values.reduce((sum, val) => sum + val, 0)
RECURSIVE ReduceSum(_, _)
ReduceSum(sum, values) ==
  IF Len(values) = 0 THEN sum ELSE ReduceSum(NumAdd(sum, Head(values)), Tail(values))

\* values.reduce((sum, val) => sum + Math.pow(val - avg, 2), 0)
RECURSIVE ReduceSquares(_, _, _)
ReduceSquares(sum, values, avg) ==
  IF Len(values) = 0 THEN sum
  ELSE ReduceSquares(NumAdd(sum, MathPow2(NumSub(Head(values), avg))), Tail(values), avg)

\* A slip: the divisor of the sample variance (values.length - 1)
SampleDivisor(values) == Fin(Len(values) - 1, 1)

\* the divisor of the variance: values.length
StdDevDivisor(values) == Fin(Len(values), 1)

\* one row of the Summary Statistics table: the constants min, max, avg, stdDev
SummaryRow(exp, metric) ==
  LET values == Values(exp, metric)
      avg == NumDiv(ReduceSum(Fin(0, 1), values), Fin(Len(values), 1))
  IN [key |-> exp.id, name |-> exp.name, count |-> Len(values),
      min |-> MathMin(values), max |-> MathMax(values), avg |-> avg,
      stdDev |-> MathSqrt(NumDiv(ReduceSquares(Fin(0, 1), values, avg), StdDevDivisor(values)))]

\* the Summary Statistics rows, rendered when comparisonMetric is set
Summary(exps, metric) ==
  IF metric # ""
  THEN LET shown == SelectSeq(exps, LAMBDA exp : SummaryFilter(exp, metric))
       IN [j \in 1..Len(shown) |-> SummaryRow(shown[j], metric)]
  ELSE <<>>

----------------------------------------------------------------------------
(* PlotPanel: the columns offered for the selected experiment *)

\* experiments.filter(exp => exp.data && exp.data.length > 0)
experimentsWithData(exps) == SelectSeq(exps, LAMBDA exp : HasRows(exp))

\* exps.find(exp => exp.id === id): the position of the first match, 0 for none
FindIndex(exps, id) ==
  IF \E j \in 1..Len(exps) : exps[j].id = id
  THEN CHOOSE j \in 1..Len(exps) : exps[j].id = id /\ \A h \in 1..(j - 1) : exps[h].id # id
  ELSE 0

\* Object.keys(row).filter(key => typeof row[key] === 'number')
NumericKeys(row) == SelectSeq(ObjectKeys(row), LAMBDA key : typeof(Get(row, key)) = "number")

\* A slip: a column is offered when every row holds a number there
AvailableColumnsEveryRow(exps, selected) ==
  IF selected = "" THEN <<>>
  ELSE LET withData == experimentsWithData(exps)
           found == FindIndex(withData, selected)
       IN IF found = 0 \/ ~withData[found].data.defined \/ Len(withData[found].data.rows) = 0
          THEN <<>>
          ELSE SelectSeq(ObjectKeys(withData[found].data.rows[1]),
                 LAMBDA key : \A j \in 1..Len(withData[found].data.rows) :
                                typeof(Get(withData[found].data.rows[j], key)) = "number")

\* the availableColumns memo
AvailableColumns(exps, selected) ==
  IF selected = "" THEN <<>>
  ELSE LET withData == experimentsWithData(exps)
           found == FindIndex(withData, selected)
       IN IF found = 0 \/ ~withData[found].data.defined \/ Len(withData[found].data.rows) = 0
          THEN <<>>
          ELSE NumericKeys(withData[found].data.rows[1])

\* ...row: the own entries of the row written into the record, in key order
RECURSIVE Spread(_, _)
Spread(record, entries) ==
  IF Len(entries) = 0 THEN record
  ELSE Spread(Put(record, Head(entries).key, Head(entries).val), Tail(entries))

\* (row, index) => ({ index, [xAxis]: row[xAxis], [yAxis]: row[yAxis], ...row })
PlotRecord(row, index, x, y) ==
  Spread(Put(Put([k \in {"index"} |-> N(index)], x, Get(row, x)), y, Get(row, y)), row)

\* the plotData memo without its guard on the axes
PlotDataNoAxisGuard(exps, selected, x, y) ==
  IF selected = "" THEN <<>>
  ELSE LET withData == experimentsWithData(exps)
           found == FindIndex(withData, selected)
       IN IF found = 0 \/ ~withData[found].data.defined THEN <<>>
          ELSE [j \in 1..Len(withData[found].data.rows) |->
                  PlotRecord(withData[found].data.rows[j], j - 1, x, y)]

\* the plotData memo
PlotData(exps, selected, x, y) ==
  IF selected = "" \/ x = "" \/ y = "" THEN <<>>
  ELSE LET withData == experimentsWithData(exps)
           found == FindIndex(withData, selected)
       IN IF found = 0 \/ ~withData[found].data.defined THEN <<>>
          ELSE [j \in 1..Len(withData[found].data.rows) |->
                  PlotRecord(withData[found].data.rows[j], j - 1, x, y)]

----------------------------------------------------------------------------
(* Objects in memory: the rows of the datasets and the records the memos   *)
(* create, each under its reference                                        *)

\* the reference of row j of the data array of the experiment with the id
RowRef(id, j) == [kind |-> "row", owner |-> id, idx |-> j]

\* the reference of the object a memo callback creates for position j
FreshRef(kind, j) == [kind |-> kind, owner |-> "", idx |-> j]

\* the fields of a row object
RowObject(row) == [k \in {row[j].key : j \in 1..Len(row)} |-> Get(row, k)]

RowRefs(exps) ==
  UNION {{RowRef(exps[e].id, j) : j \in 1..Len(exps[e].data.rows)} : e \in 1..Len(exps)}

\* the row objects of the experiments
RowHeap(exps) ==
  [r \in RowRefs(exps) |->
     RowObject(exps[CHOOSE e \in 1..Len(exps) :
                      exps[e].id = r.owner /\ r.idx <= Len(exps[e].data.rows)].data.rows[r.idx])]

Range(refs) == {refs[j] : j \in 1..Len(refs)}

\* A slip: Object.assign(row, { index, ... }) writes into the row and returns it
RowAsRecord(id, j) == RowRef(id, j)

\* ({ index, [xAxis]: row[xAxis], [yAxis]: row[yAxis], ...row }): an object
\* literal is a new object
RecordLiteral(id, j) == FreshRef("record", j)

\* const point: any = { index: i }
PointLiteral(i) == FreshRef("point", i)

\* the objects after a memo has run: the records it created before are
\* dropped, its new records hold the computed fields
MemoHeap(h, dropped, refs, data) ==
  [r \in (DOMAIN h \ {d \in Range(dropped) : d.kind # "row"}) \cup Range(refs) |->
     IF r \in Range(refs) THEN data[CHOOSE j \in 1..Len(refs) : refs[j] = r] ELSE h[r]]

----------------------------------------------------------------------------
(* The inputs: the lists of experiments the panel is mounted with *)

\* The rows datasets are made of: keys "t" and "v" in either order, numeric,
\* textual and missing cells
RowSet ==
  { <<KV("v", N(1))>>,
    <<KV("t", S("a")), KV("v", N(2))>>,
    <<KV("v", N(3)), KV("t", N(2))>>,
    <<KV("t", N(1)), KV("v", N(1))>>,
    <<KV("v", S("a"))>>,
    <<KV("t", N(1))>> }

\* Display names, among them the name of the index field of a record
Names == {"A", "B", "index"}

\* Metrics a caller asks for: the two columns and one no row has
Metrics == {"t", "v", "w"}

\* ids of the experiments of a list, in list order
ExperimentIds == <<"1", "2">>

DataUpTo(budget) ==
  {NoData} \cup {Data(rows) : rows \in UNION {[1..k -> RowSet] : k \in 0..budget}}

Experiment(n, nm, d) == [id |-> ExperimentIds[n], name |-> nm, data |-> d]

\* The lists of at most Len(ExperimentIds) experiments with at most
\* MaxTotalRows rows in all
IsProps(exps) ==
  \/ exps = <<>>
  \/ \E nm \in Names, d \in DataUpTo(MaxTotalRows) : exps = <<Experiment(1, nm, d)>>
  \/ \E nm1 \in Names, d1 \in DataUpTo(MaxTotalRows) :
       \E nm2 \in Names, d2 \in DataUpTo(MaxTotalRows - Len(d1.rows)) :
         exps = <<Experiment(1, nm1, d1), Experiment(2, nm2, d2)>>

----------------------------------------------------------------------------
(* The component as a state machine *)

\* useState<File | null>(null); a File by its name, the characters one by
\* one, and its MIME type
NoFile == [present |-> FALSE, name |-> <<>>, type |-> ""]

\* useState<any[] | null>(null); parsed data carries the file it was
\* generated for
NoParsedData == [present |-> FALSE, data |-> <<>>, madeFor |-> NoFile]

\* useState({ name: '', description: '', status: 'draft', tags: [],
\* customColumns: {} }), the name as the characters typed
EmptyForm ==
  [name |-> <<>>, description |-> "", status |-> "draft", tags |-> <<>>,
   customColumns |-> <<>>]

\* the dialogs after construction: closed, nothing in them, no toast
DialogsIdle ==
  /\ showUploadDialog = FALSE
  /\ uploadedFile = NoFile
  /\ parsedData = NoParsedData
  /\ isProcessing = FALSE
  /\ pendingParses = <<>>
  /\ toastTitle = ""
  /\ showCreateDialog = FALSE
  /\ formData = EmptyForm
  /\ newTag = <<>>

\* a panel on its own: the store holds what the panel is handed, all of it
\* selected
Standalone ==
  /\ dashboardExperiments = experiments
  /\ selectedExperiments = [j \in 1..Len(experiments) |-> experiments[j].id]
  /\ activeView = "grid"
  /\ now = 0
  /\ operations = 0
  /\ DialogsIdle

\* mount: useState('') and the first render
Init ==
  /\ IsProps(experiments)
  /\ comparisonMetric = ""
  /\ allDataColumns = AllDataColumns(experiments)
  /\ chartData = ChartData(experiments, comparisonMetric)
  /\ lineSeries = LineSeries(experiments, comparisonMetric, chartData)
  /\ summary = Summary(experiments, comparisonMetric)
  /\ selectedExperimentForPlot = ""
  /\ xAxis = ""
  /\ yAxis = ""
  /\ availableColumns = AvailableColumns(experiments, selectedExperimentForPlot)
  /\ plotData = PlotData(experiments, selectedExperimentForPlot, xAxis, yAxis)
  /\ heap = RowHeap(experiments)
  /\ plotRefs = <<>>
  /\ chartRefs = <<>>
  /\ Standalone

\* useMemo(callback, deps): the value kept from the render before unless a
\* dependency has changed
useMemo(depsChanged, kept, computed) == IF depsChanged THEN computed ELSE kept

\* the render of ComparisonPanel that follows a state or props change; the
\* chartData memo runs again when its dependencies [experiments,
\* comparisonMetric] have changed
RenderComparison ==
  /\ allDataColumns' = useMemo(experiments' # experiments, allDataColumns,
                               AllDataColumns(experiments'))
  /\ chartData' = useMemo(<<experiments', comparisonMetric'>> # <<experiments, comparisonMetric>>,
                          chartData, ChartData(experiments', comparisonMetric'))
  /\ lineSeries' = LineSeries(experiments', comparisonMetric', chartData')
  /\ summary' = Summary(experiments', comparisonMetric')
  /\ plotRefs' = plotRefs
  /\ IF <<experiments', comparisonMetric'>> = <<experiments, comparisonMetric>>
     THEN UNCHANGED <<heap, chartRefs>>
     ELSE /\ chartRefs' = [i \in 1..Len(chartData') |-> PointLiteral(i)]
          /\ heap' = MemoHeap(heap, chartRefs, chartRefs', chartData')

\* onValueChange={setComparisonMetric}
SetComparisonMetric(metric) ==
  /\ comparisonMetric' = metric
  /\ UNCHANGED <<experiments, plotVars, dashboardVars>>
  /\ RenderComparison

Next == \E metric \in Metrics : SetComparisonMetric(metric)

Spec == Init /\ [][Next]_vars

\* The rows of the datasets PlotPanel is mounted with: a row with a field
\* named "index", rows without "v" or without "t", "t" not monotonic
PlotRowSet ==
  { <<KV("v", N(3)), KV("t", N(2))>>,
    <<KV("t", S("a")), KV("v", N(2))>>,
    <<KV("t", N(1)), KV("v", N(1))>>,
    <<KV("index", N(5)), KV("t", N(1))>>,
    <<KV("v", S("a"))>> }

PlotDataUpTo(budget) ==
  {NoData} \cup {Data(rows) : rows \in UNION {[1..k -> PlotRowSet] : k \in 0..budget}}

\* The lists of at most Len(ExperimentIds) experiments, named "A" and "B",
\* with at most MaxTotalRows rows in all
IsPlotProps(exps) ==
  \/ exps = <<>>
  \/ \E d \in PlotDataUpTo(MaxTotalRows) : exps = <<Experiment(1, "A", d)>>
  \/ \E d1 \in PlotDataUpTo(MaxTotalRows) :
       \E d2 \in PlotDataUpTo(MaxTotalRows - Len(d1.rows)) :
         exps = <<Experiment(1, "A", d1), Experiment(2, "B", d2)>>

\* PlotPanel mounted: useState('') three times and the first render
InitPlot ==
  /\ IsPlotProps(experiments)
  /\ comparisonMetric = ""
  /\ allDataColumns = AllDataColumns(experiments)
  /\ chartData = ChartData(experiments, comparisonMetric)
  /\ lineSeries = LineSeries(experiments, comparisonMetric, chartData)
  /\ summary = Summary(experiments, comparisonMetric)
  /\ selectedExperimentForPlot = ""
  /\ xAxis = ""
  /\ yAxis = ""
  /\ availableColumns = AvailableColumns(experiments, selectedExperimentForPlot)
  /\ plotData = PlotData(experiments, selectedExperimentForPlot, xAxis, yAxis)
  /\ heap = RowHeap(experiments)
  /\ plotRefs = <<>>
  /\ chartRefs = <<>>
  /\ Standalone

\* the render of PlotPanel that follows a state change
RenderPlot ==
  /\ availableColumns' = AvailableColumns(experiments', selectedExperimentForPlot')
  /\ plotData' = PlotData(experiments', selectedExperimentForPlot', xAxis', yAxis')
  /\ chartRefs' = chartRefs
  /\ IF <<selectedExperimentForPlot', xAxis', yAxis'>> = <<selectedExperimentForPlot, xAxis, yAxis>>
     THEN UNCHANGED <<heap, plotRefs>>
     ELSE /\ plotRefs' = [j \in 1..Len(plotData') |-> RecordLiteral(selectedExperimentForPlot', j)]
          /\ heap' = MemoHeap(heap, plotRefs, plotRefs', plotData')

\* onValueChange={setSelectedExperimentForPlot}
SetSelectedExperimentForPlot(id) ==
  /\ selectedExperimentForPlot' = id
  /\ UNCHANGED <<experiments, comparisonVars, xAxis, yAxis, dashboardVars>>
  /\ RenderPlot

\* onValueChange={setXAxis}: one of the offered columns, the select is
\* disabled while no experiment is selected
SetXAxis(column) ==
  /\ selectedExperimentForPlot # ""
  /\ \E j \in 1..Len(availableColumns) : availableColumns[j] = column
  /\ xAxis' = column
  /\ UNCHANGED <<experiments, comparisonVars, selectedExperimentForPlot, yAxis, dashboardVars>>
  /\ RenderPlot

\* onValueChange={setYAxis}
SetYAxis(column) ==
  /\ selectedExperimentForPlot # ""
  /\ \E j \in 1..Len(availableColumns) : availableColumns[j] = column
  /\ yAxis' = column
  /\ UNCHANGED <<experiments, comparisonVars, selectedExperimentForPlot, xAxis, dashboardVars>>
  /\ RenderPlot

\* the column names of the rows
Columns == {"t", "v", "index"}

NextPlot ==
  \/ \E j \in 1..Len(ExperimentIds) : SetSelectedExperimentForPlot(ExperimentIds[j])
  \/ \E column \in Columns : SetXAxis(column)
  \/ \E column \in Columns : SetYAxis(column)

SpecPlot == InitPlot /\ [][NextPlot]_vars

----------------------------------------------------------------------------
(* Dashboard: the store of experiments, the selection and the view *)

\* Date.now() at construction, in ms, without its last digit
ClockStart == "170000000000"

\* Date.now().toString()
DateNowString(clock) == ClockStart \o ToString(clock)

\* new Date().toISOString().split('T')[0]: the day of ClockStart for every
\* clock value of the model
TodayString(clock) == "2023-11-14"

\* selectedExperiments.includes(id)
Includes(selected, id) == \E j \in 1..Len(selected) : selected[j] = id

\* the experiments a panel is handed in a view: PlotPanel gets the store,
\* ComparisonPanel the selected experiments when at least two ids are selected
PanelProps(view, exps, selected) ==
  IF view = "plot" THEN exps
  ELSE IF view = "compare" /\ Len(selected) >= 2
       THEN SelectSeq(exps, LAMBDA exp : Includes(selected, exp.id))
       ELSE <<>>

\* the render of Dashboard that follows a change of its state: the panel of
\* the view is rendered with its props, it keeps its own state while it stays
\* mounted and starts from useState('') when it is mounted; every memo of a
\* panel runs, its dependencies being arrays made in this render
RenderDashboard ==
  /\ experiments' = PanelProps(activeView', dashboardExperiments', selectedExperiments')
  /\ IF activeView' = "plot"
     THEN /\ IF activeView = "plot"
             THEN UNCHANGED <<selectedExperimentForPlot, xAxis, yAxis>>
             ELSE selectedExperimentForPlot' = "" /\ xAxis' = "" /\ yAxis' = ""
          /\ availableColumns' = AvailableColumns(experiments', selectedExperimentForPlot')
          /\ plotData' = PlotData(experiments', selectedExperimentForPlot', xAxis', yAxis')
     ELSE /\ selectedExperimentForPlot' = "" /\ xAxis' = "" /\ yAxis' = ""
          /\ availableColumns' = <<>>
          /\ plotData' = <<>>
  /\ IF activeView' = "compare" /\ Len(selectedExperiments') >= 2
     THEN /\ IF activeView = "compare" /\ Len(selectedExperiments) >= 2
             THEN UNCHANGED comparisonMetric
             ELSE comparisonMetric' = ""
          /\ allDataColumns' = AllDataColumns(experiments')
          /\ chartData' = ChartData(experiments', comparisonMetric')
          /\ lineSeries' = LineSeries(experiments', comparisonMetric', chartData')
          /\ summary' = Summary(experiments', comparisonMetric')
     ELSE /\ comparisonMetric' = ""
          /\ allDataColumns' = <<>>
          /\ chartData' = <<>>
          /\ lineSeries' = <<>>
          /\ summary' = <<>>
  /\ plotRefs' = [j \in 1..Len(plotData') |-> RecordLiteral(selectedExperimentForPlot', j)]
  /\ chartRefs' = [i \in 1..Len(chartData') |-> PointLiteral(i)]
  /\ heap' = MemoHeap(MemoHeap(RowHeap(experiments'), <<>>, plotRefs', plotData'),
                      <<>>, chartRefs', chartData')

\* A slip: the Compare button without disabled
CompareNeverDisabled(selected) == FALSE

\* disabled={selectedExperiments.length < 2} on the Compare button
CompareDisabled(selected) == Len(selected) < 2

\* onClick={() => setActiveView(view)}
SetActiveView(view) ==
  /\ view # activeView
  /\ view = "compare" => ~CompareDisabled(selectedExperiments)
  /\ activeView' = view
  /\ showUploadDialog' = FALSE
  /\ uploadedFile' = NoFile
  /\ parsedData' = NoParsedData
  /\ isProcessing' = FALSE
  /\ pendingParses' = <<>>
  /\ UNCHANGED <<dashboardExperiments, selectedExperiments, now, operations, toastTitle,
                 createVars>>
  /\ RenderDashboard

\* handleSelectExperiment from the checkbox of a card, cards are shown in the
\* grid view
HandleSelectExperiment(experimentId, checked) ==
  /\ activeView = "grid"
  /\ \E j \in 1..Len(dashboardExperiments) : dashboardExperiments[j].id = experimentId
  /\ checked = ~Includes(selectedExperiments, experimentId)
  /\ selectedExperiments' =
       IF checked THEN Append(selectedExperiments, experimentId)
       ELSE SelectSeq(selectedExperiments, LAMBDA id : id # experimentId)
  /\ UNCHANGED <<dashboardExperiments, activeView, now, operations, uploadVars, createVars>>
  /\ RenderDashboard

\* the panels before they are mounted
Unmounted ==
  /\ experiments = <<>>
  /\ comparisonMetric = ""
  /\ allDataColumns = <<>>
  /\ chartData = <<>>
  /\ lineSeries = <<>>
  /\ summary = <<>>
  /\ selectedExperimentForPlot = ""
  /\ xAxis = ""
  /\ yAxis = ""
  /\ availableColumns = <<>>
  /\ plotData = <<>>
  /\ heap = RowHeap(<<>>)
  /\ plotRefs = <<>>
  /\ chartRefs = <<>>

\* A slip: { ...updates, ...exp }, the fields the experiment has win
MergeKeepingOld(exp, updates, today) ==
  [f \in DOMAIN exp \cup DOMAIN updates |->
     IF f = "lastModified" THEN today
     ELSE IF f \in DOMAIN exp THEN exp[f] ELSE updates[f]]

\* { ...exp, ...updates, lastModified: ... }
Merge(exp, updates, today) ==
  [f \in DOMAIN exp \cup DOMAIN updates |->
     IF f = "lastModified" THEN today
     ELSE IF f \in DOMAIN updates THEN updates[f] ELSE exp[f]]

\* handleUpdateExperiment
HandleUpdateExperiment(experimentId, updates) ==
  /\ operations < MaxOperations
  /\ operations' = operations + 1
  /\ dashboardExperiments' =
       [j \in 1..Len(dashboardExperiments) |->
          IF dashboardExperiments[j].id = experimentId
          THEN Merge(dashboardExperiments[j], updates, TodayString(now))
          ELSE dashboardExperiments[j]]
  /\ UNCHANGED <<selectedExperiments, activeView, now, createVars>>
  /\ RenderDashboard

\* an experiment without plotConfig
NoPlotConfig == [defined |-> FALSE, xAxis |-> "", yAxis |-> "", title |-> ""]

\* A slip: [...prev, experiment]
PrependAtEnd(experiment, prev) == prev \o <<experiment>>

\* [experiment, ...prev]
Prepend(experiment, prev) == <<experiment>> \o prev

\* handleCreateExperiment with the experiment of the create form, elapsed ms
\* after the clock was read last; an experiment of the form has no data and
\* no plotConfig
HandleCreateExperiment(newExperiment, elapsed) ==
  /\ operations < MaxOperations
  /\ operations' = operations + 1
  /\ now' = now + elapsed
  /\ dashboardExperiments' =
       Prepend([id |-> DateNowString(now'), name |-> newExperiment.name,
                status |-> newExperiment.status,
                createdAt |-> TodayString(now'), lastModified |-> TodayString(now'),
                description |-> newExperiment.description, tags |-> newExperiment.tags,
                customColumns |-> newExperiment.customColumns,
                plotConfig |-> NoPlotConfig, data |-> NoData],
               dashboardExperiments)
  /\ showCreateDialog' = FALSE
  /\ UNCHANGED <<selectedExperiments, activeView, uploadVars>>
  /\ RenderDashboard

\* handleDuplicateExperiment from the menu of a card, elapsed ms after the
\* clock was read last
HandleDuplicateExperiment(experimentId, elapsed) ==
  /\ activeView = "grid"
  /\ operations < MaxOperations
  /\ operations' = operations + 1
  /\ now' = now + elapsed
  /\ LET found == FindIndex(dashboardExperiments, experimentId)
     IN dashboardExperiments' =
          IF found = 0 THEN dashboardExperiments
          ELSE Prepend([dashboardExperiments[found] EXCEPT
                          !.id = DateNowString(now'),
                          !.name = dashboardExperiments[found].name \o " (Copy)",
                          !.status = "draft",
                          !.createdAt = TodayString(now'),
                          !.lastModified = TodayString(now')],
                       dashboardExperiments)
  /\ UNCHANGED <<selectedExperiments, activeView, uploadVars, createVars>>
  /\ RenderDashboard

\* the characters in front of the first comma
RECURSIVE UpToComma(_)
UpToComma(chars) ==
  IF Len(chars) = 0 \/ Head(chars) = "," THEN <<>>
  ELSE <<Head(chars)>> \o UpToComma(Tail(chars))

\* String.prototype.split(','): the pieces between the commas
RECURSIVE SplitComma(_)
SplitComma(chars) ==
  LET first == UpToComma(chars)
  IN IF Len(first) = Len(chars) THEN <<first>>
     ELSE <<first>> \o SplitComma(SubSeq(chars, Len(first) + 2, Len(chars)))

\* String.prototype.trim() on blanks
RECURSIVE Trim(_)
Trim(chars) ==
  IF Len(chars) = 0 THEN chars
  ELSE IF Head(chars) = " " THEN Trim(Tail(chars))
  ELSE IF chars[Len(chars)] = " " THEN Trim(SubSeq(chars, 1, Len(chars) - 1))
  ELSE chars

\* the string of a sequence of characters
RECURSIVE StringOf(_)
StringOf(chars) == IF Len(chars) = 0 THEN "" ELSE Head(chars) \o StringOf(Tail(chars))

\* editForm.tags.split(',').map(tag => tag.trim()).filter(Boolean)
ParseTags(chars) ==
  LET trimmed == [j \in 1..Len(SplitComma(chars)) |-> StringOf(Trim(SplitComma(chars)[j]))]
  IN SelectSeq(trimmed, LAMBDA tag : tag # "")

\* ExperimentCard.handleSaveEdit with what the edit form holds, the tags as
\* the characters typed
HandleSaveEdit(experimentId, editForm) ==
  /\ activeView = "grid"
  /\ \E j \in 1..Len(dashboardExperiments) : dashboardExperiments[j].id = experimentId
  /\ HandleUpdateExperiment(experimentId,
       [name |-> editForm.name, description |-> editForm.description,
        tags |-> ParseTags(editForm.tags)])
  /\ UNCHANGED uploadVars

\* the card whose upload dialog is followed
DialogCard == "1"

\* ExperimentCard.handleDataUpload on the card of an experiment, cards are
\* shown in the grid view
HandleDataUpload(experimentId, data) ==
  /\ activeView = "grid"
  /\ \E j \in 1..Len(dashboardExperiments) : dashboardExperiments[j].id = experimentId
  /\ HandleUpdateExperiment(experimentId, [data |-> data])
  /\ showUploadDialog' = IF experimentId = DialogCard THEN FALSE ELSE showUploadDialog

----------------------------------------------------------------------------
(* ExcelUploadDialog (src/src/components/ExcelUploadDialog.tsx) of the card *)
(* DialogCard                                                               *)

File(name, type) == [present |-> TRUE, name |-> name, type |-> type]

\* parsed data as setParsedData stores it, with the file it was generated for
Parsed(data, file) == [present |-> TRUE, data |-> data, madeFor |-> file]

\* const validTypes = [...]
validTypes ==
  { "application/vnd.ms-excel",
    "application/vnd.openxmlformats-officedocument.spreadsheetml.sheet",
    "text/csv" }

\* the lower case of a letter, for the capitals the file names are written in
LowerChar(c) ==
  CASE c = "C" -> "c" [] c = "S" -> "s" [] c = "V" -> "v"
    [] c = "X" -> "x" [] c = "L" -> "l" [] c = "T" -> "t"
    [] OTHER -> c

\* String.prototype.toLowerCase()
ToLowerCase(chars) == [j \in 1..Len(chars) |-> LowerChar(chars[j])]

\* the text ends in the suffix
EndsWith(chars, suffix) ==
  /\ Len(chars) >= Len(suffix)
  /\ SubSeq(chars, Len(chars) - Len(suffix) + 1, Len(chars)) = suffix

\* String.prototype.includes(word)
IncludesText(chars, word) ==
  \E j \in 1..Len(chars) :
    /\ j + Len(word) - 1 <= Len(chars)
    /\ SubSeq(chars, j, j + Len(word) - 1) = word

\* the extensions of /\.(xlsx?|csv)$/
Extensions ==
  { <<".", "x", "l", "s">>, <<".", "x", "l", "s", "x">>, <<".", "c", "s", "v">> }

\* A slip: /\.(xlsx?|csv)$/ without the i flag
MatchesExtensionAsWritten(name) ==
  \E extension \in Extensions : EndsWith(name, extension)

\* file.name.match(/\.(xlsx?|csv)$/i)
MatchesExtension(name) ==
  \E extension \in Extensions : EndsWith(ToLowerCase(name), extension)

\* the file passes the check of handleFiles
IsValidFile(file) == file.type \in validTypes \/ MatchesExtension(file.name)

Battery == <<"b", "a", "t", "t", "e", "r", "y">>
Voltage == <<"v", "o", "l", "t", "a", "g", "e">>
Thermal == <<"t", "h", "e", "r", "m", "a", "l">>
Temp == <<"t", "e", "m", "p">>

\* generateSampleData(filename): the rows depend on what the name contains
\* and on Math.random(); fewer rows and columns than the code makes, "t" for
\* time, "v" for voltage, temperature or, in the third kind, measurement
SampleData(filename) ==
  LET lower == ToLowerCase(filename)
  IN IF IncludesText(lower, Battery) \/ IncludesText(lower, Voltage)
     THEN { Data(<<<<KV("t", N(0)), KV("v", N(3))>>, <<KV("t", N(1)), KV("v", N(2))>>>>),
            Data(<<<<KV("t", N(0)), KV("v", N(4))>>, <<KV("t", N(1)), KV("v", N(3))>>>>) }
     ELSE IF IncludesText(lower, Thermal) \/ IncludesText(lower, Temp)
     THEN { Data(<<<<KV("t", N(0)), KV("v", N(22))>>>>) }
     ELSE { Data(<<<<KV("t", N(0)), KV("v", S("M1"))>>>>) }

\* everything outside the upload dialog
outsideUpload ==
  <<experiments, comparisonVars, plotVars, heapVars, dashboardExperiments,
    selectedExperiments, activeView, now, operations, createVars>>

\* onClick={() => setShowUploadDialog(true)} on the card
OpenUploadDialog ==
  /\ activeView = "grid"
  /\ ~showUploadDialog
  /\ showUploadDialog' = TRUE
  /\ UNCHANGED <<uploadedFile, parsedData, isProcessing, pendingParses, toastTitle>>
  /\ UNCHANGED outsideUpload

\* handleFiles up to its await, from a drop or from the file input; the drop
\* zone is there while no file is recorded
HandleFiles(files) ==
  /\ showUploadDialog
  /\ ~uploadedFile.present
  /\ IF Len(files) = 0
     THEN UNCHANGED <<uploadedFile, isProcessing, pendingParses, toastTitle>>
     ELSE IF ~IsValidFile(files[1])
     THEN /\ toastTitle' = "Invalid file type"
          /\ UNCHANGED <<uploadedFile, isProcessing, pendingParses>>
     ELSE /\ Len(pendingParses) < MaxPending
          /\ uploadedFile' = files[1]
          /\ isProcessing' = TRUE
          /\ pendingParses' = Append(pendingParses, files[1])
          /\ UNCHANGED toastTitle
  /\ UNCHANGED <<showUploadDialog, parsedData>>
  /\ UNCHANGED outsideUpload

\* A slip: no finally, the flag stays as it is
ProcessingLeftAsItIs(flag) == flag

\* finally { setIsProcessing(false) }
ProcessingAfterParse(flag) == FALSE

\* handleFiles from its await on: the timer that was set first fires first
ParseCompletes ==
  /\ pendingParses # <<>>
  /\ \E sampleData \in SampleData(Head(pendingParses).name) :
       parsedData' = Parsed(sampleData, Head(pendingParses))
  /\ toastTitle' = "File processed successfully"
  /\ isProcessing' = ProcessingAfterParse(isProcessing)
  /\ pendingParses' = Tail(pendingParses)
  /\ UNCHANGED <<showUploadDialog, uploadedFile>>
  /\ UNCHANGED outsideUpload

\* the X button next to the file
ClearFile ==
  /\ showUploadDialog
  /\ uploadedFile.present
  /\ uploadedFile' = NoFile
  /\ parsedData' = NoParsedData
  /\ UNCHANGED <<showUploadDialog, isProcessing, pendingParses, toastTitle>>
  /\ UNCHANGED outsideUpload

\* handleClose, from Cancel or from the dialog's onOpenChange
HandleClose ==
  /\ showUploadDialog
  /\ uploadedFile' = NoFile
  /\ parsedData' = NoParsedData
  /\ isProcessing' = FALSE
  /\ showUploadDialog' = FALSE
  /\ UNCHANGED <<pendingParses, toastTitle>>
  /\ UNCHANGED outsideUpload

\* handleConfirmUpload of the dialog of a card, with the parsed data the
\* dialog holds: the card's handleDataUpload, then handleClose
HandleConfirmUpload(experimentId, parsed) ==
  /\ parsed.present
  /\ HandleDataUpload(experimentId, parsed.data)
  /\ IF experimentId = DialogCard
     THEN uploadedFile' = NoFile /\ parsedData' = NoParsedData /\ isProcessing' = FALSE
     ELSE UNCHANGED <<uploadedFile, parsedData, isProcessing>>
  /\ UNCHANGED <<pendingParses, toastTitle>>

\* the Upload Data button, shown while the dialog holds parsed data
ConfirmUpload ==
  /\ showUploadDialog
  /\ HandleConfirmUpload(DialogCard, parsedData)

----------------------------------------------------------------------------
(* CreateExperimentDialog (src/src/components/CreateExperimentDialog.tsx)  *)

\* everything outside the create dialog
outsideCreate ==
  <<experiments, comparisonVars, plotVars, heapVars, dashboardExperiments,
    selectedExperiments, activeView, now, operations, uploadVars>>

\* onClick={() => setShowCreateDialog(true)}
ShowCreateDialog ==
  /\ ~showCreateDialog
  /\ showCreateDialog' = TRUE
  /\ UNCHANGED <<formData, newTag>>
  /\ UNCHANGED outsideCreate

\* onOpenChange(false), from Cancel or from the dialog
CloseCreateDialog ==
  /\ showCreateDialog
  /\ showCreateDialog' = FALSE
  /\ UNCHANGED <<formData, newTag>>
  /\ UNCHANGED outsideCreate

\* onChange of the name input
SetFormName(value) ==
  /\ showCreateDialog
  /\ formData' = [formData EXCEPT !.name = value]
  /\ UNCHANGED <<showCreateDialog, newTag>>
  /\ UNCHANGED outsideCreate

\* onChange of the tag input
SetNewTag(value) ==
  /\ showCreateDialog
  /\ newTag' = value
  /\ UNCHANGED <<showCreateDialog, formData>>
  /\ UNCHANGED outsideCreate

\* addTag
AddTag ==
  /\ showCreateDialog
  /\ LET tag == StringOf(Trim(newTag))
     IN IF tag # "" /\ ~Includes(formData.tags, tag)
        THEN /\ formData' = [formData EXCEPT !.tags = Append(formData.tags, tag)]
             /\ newTag' = <<>>
        ELSE UNCHANGED <<formData, newTag>>
  /\ UNCHANGED showCreateDialog
  /\ UNCHANGED outsideCreate

\* removeTag(tagToRemove) from the badge of a tag
RemoveTag(tagToRemove) ==
  /\ showCreateDialog
  /\ Includes(formData.tags, tagToRemove)
  /\ formData' = [formData EXCEPT
                    !.tags = SelectSeq(formData.tags, LAMBDA tag : tag # tagToRemove)]
  /\ UNCHANGED <<showCreateDialog, newTag>>
  /\ UNCHANGED outsideCreate

\* A slip: !formData.name
IsEmpty(chars) == chars = <<>>

\* !formData.name.trim()
IsBlank(chars) == Trim(chars) = <<>>

\* handleSubmit with what the form holds, elapsed ms after the clock was
\* read last
HandleSubmit(form, elapsed) ==
  /\ showCreateDialog
  /\ IF IsBlank(form.name)
     THEN UNCHANGED vars
     ELSE /\ HandleCreateExperiment(
               [name |-> StringOf(form.name), description |-> form.description,
                status |-> form.status, tags |-> form.tags,
                customColumns |-> form.customColumns], elapsed)
          /\ formData' = EmptyForm
          /\ newTag' = <<>>

\* useState<Experiment[]>([...]): the three experiments Dashboard starts with
InitialExperiments ==
  << [id |-> "1", name |-> "Battery Performance Test v1", status |-> "completed",
      createdAt |-> "2024-01-15", lastModified |-> "2024-01-16",
      description |-> "Initial battery discharge curve analysis",
      tags |-> <<"battery", "performance">>,
      customColumns |-> <<KV("voltage", S("3.7V")), KV("current", S("2.1A")),
                          KV("temperature", S("25C")), KV("cycles", N(100))>>,
      plotConfig |-> [defined |-> TRUE, xAxis |-> "time", yAxis |-> "voltage",
                      title |-> "Voltage vs Time"],
      data |-> NoData],
     [id |-> "2", name |-> "Battery Performance Test v2", status |-> "running",
      createdAt |-> "2024-01-17", lastModified |-> "2024-01-17",
      description |-> "Optimized discharge parameters",
      tags |-> <<"battery", "performance", "optimization">>,
      customColumns |-> <<KV("voltage", S("3.8V")), KV("current", S("1.8A")),
                          KV("temperature", S("23C")), KV("cycles", N(150))>>,
      plotConfig |-> NoPlotConfig,
      data |-> NoData],
     [id |-> "3", name |-> "Thermal Analysis Study", status |-> "draft",
      createdAt |-> "2024-01-18", lastModified |-> "2024-01-18",
      description |-> "Heat dissipation under load",
      tags |-> <<"thermal", "analysis">>,
      customColumns |-> <<KV("maxTemp", S("85C")), KV("ambientTemp", S("22C")),
                          KV("power", S("50W")), KV("duration", S("2h"))>>,
      plotConfig |-> NoPlotConfig,
      data |-> NoData] >>

\* Dashboard after construction: the grid view, nothing selected
InitDashboard ==
  /\ dashboardExperiments = InitialExperiments
  /\ selectedExperiments = <<>>
  /\ activeView = "grid"
  /\ now = 0
  /\ operations = 0
  /\ DialogsIdle
  /\ Unmounted

\* The row sequences handed to onDataUpload, as generateSampleData makes
\* them with fewer rows and columns: every row has every column, "t" is a
\* number in all of them, "v" a number or, as measurement, a text
UploadedData ==
  { Data(<<<<KV("t", N(0)), KV("v", N(3))>>, <<KV("t", N(1)), KV("v", N(2))>>>>),
    Data(<<<<KV("t", N(0)), KV("v", S("a"))>>>>) }

\* the ids of the experiments in the store
StoreIds == {dashboardExperiments[j].id : j \in 1..Len(dashboardExperiments)}

\* the ids the experiment select of PlotPanel offers
PlotChoices == {exp.id : exp \in Range(experimentsWithData(experiments))}

NextDashboard ==
  \/ \E view \in {"grid", "plot", "compare"} : SetActiveView(view)
  \/ \E id \in StoreIds, checked \in BOOLEAN : HandleSelectExperiment(id, checked)
  \/ \E id \in StoreIds, data \in UploadedData : HandleConfirmUpload(id, Parsed(data, NoFile))
  \/ \E id \in PlotChoices : (activeView = "plot" /\ SetSelectedExperimentForPlot(id))
  \/ \E column \in Columns : (activeView = "plot" /\ SetXAxis(column))
  \/ \E column \in Columns : (activeView = "plot" /\ SetYAxis(column))
  \/ \E metric \in Metrics : (activeView = "compare" /\ SetComparisonMetric(metric))

SpecDashboard == InitDashboard /\ [][NextDashboard]_vars

\* What the create form may hold when it is submitted
NewExperiments ==
  { [name |-> <<"F", "a", "n", " ", "C", "u", "r", "v", "e">>, description |-> "",
     status |-> "draft", tags |-> <<>>, customColumns |-> <<>>] }

\* What the edit form may hold when it is saved
EditForms ==
  { [name |-> "Renamed", description |-> "edited",
     tags |-> <<" ", "x", ",", " ", ",", "y">>] }

\* ms between two readings of the clock
Elapsed == {0, 1}

\* The store under create, duplicate, edit and upload, in the grid view
NextStore ==
  \/ ShowCreateDialog
  \/ \E newExperiment \in NewExperiments, elapsed \in Elapsed :
       HandleSubmit(newExperiment, elapsed)
  \/ \E id \in StoreIds, elapsed \in Elapsed : HandleDuplicateExperiment(id, elapsed)
  \/ \E id \in StoreIds, editForm \in EditForms : HandleSaveEdit(id, editForm)
  \/ \E id \in StoreIds, data \in UploadedData : HandleConfirmUpload(id, Parsed(data, NoFile))

SpecStore == InitDashboard /\ [][NextStore]_vars

\* The number of experiments selected at once
MaxSelected == 2

\* The views and the selection while the newest experiment is duplicated
NextSelect ==
  \/ \E view \in {"grid", "plot", "compare"} : SetActiveView(view)
  \/ \E id \in StoreIds, checked \in BOOLEAN :
       /\ checked => Len(selectedExperiments) < MaxSelected
       /\ HandleSelectExperiment(id, checked)
  \/ \E elapsed \in Elapsed : HandleDuplicateExperiment(dashboardExperiments[1].id, elapsed)

SpecSelect == InitDashboard /\ [][NextSelect]_vars

\* The number of experiments created through the form in one behaviour
MaxCreated == 2

\* What is typed into the name input and into the tag input
NameInputs == { <<>>, <<" ">>, <<" ", "F">> }
TagInputs == { <<" ">>, <<"x">>, <<" ", "x">>, <<"y">> }

\* The create dialog: the form is filled in, tags are added and removed, the
\* form is submitted
NextCreate ==
  \/ ShowCreateDialog
  \/ CloseCreateDialog
  \/ \E value \in NameInputs : SetFormName(value)
  \/ \E value \in TagInputs : SetNewTag(value)
  \/ AddTag
  \/ \E tag \in {"x", "y"} : RemoveTag(tag)
  \/ \E elapsed \in Elapsed : (operations < MaxCreated /\ HandleSubmit(formData, elapsed))

SpecCreate == InitDashboard /\ [][NextCreate]_vars

\* The files dropped on the dialog: three that pass the check, by the name,
\* by the type or by both, and three that do not
Files ==
  { File(Battery \o <<".", "C", "S", "V">>, ""),
    File(Temp, "text/csv"),
    File(<<"a", ".", "x", "l", "s">>, "application/vnd.ms-excel"),
    File(<<"a", ".", "t", "x", "t">>, "text/plain"),
    File(<<"a", ".", "c", "s", "v", ".", "b", "a", "k">>, ""),
    File(<<"c", "s", "v">>, "TEXT/CSV") }

\* e.dataTransfer.files or e.target.files: nothing, or a file
FileLists == {<<>>} \cup {<<file>> : file \in Files}

\* The upload dialog of one card, in the grid view
NextUpload ==
  \/ OpenUploadDialog
  \/ \E files \in FileLists : HandleFiles(files)
  \/ ParseCompletes
  \/ ClearFile
  \/ HandleClose
  \/ ConfirmUpload

SpecUpload == InitDashboard /\ [][NextUpload]_vars

\* the timer of a parse fires, 1500 ms after it was set
SpecUploadFair == SpecUpload /\ WF_vars(ParseCompletes)

\* The number of experiments in a store that is compared as a whole
MaxSeries == 9

\* The experiment at position n of such a store, the newest first: its rows
\* carry "v" or it has no data
SeriesExperiment(n, withData) ==
  [id |-> IF n > MaxSeries - 3 THEN ToString(n - (MaxSeries - 3)) ELSE DateNowString(MaxSeries - n),
   name |-> "E" \o ToString(n),
   data |-> IF withData THEN Data(<<<<KV("v", N(n))>>>>) ELSE NoData]

\* A store of MaxSeries experiments of which at most one has no data
IsSeriesStore(exps) ==
  \E without \in 0..MaxSeries :
    exps = [n \in 1..MaxSeries |-> SeriesExperiment(n, n # without)]

\* Dashboard with every experiment of the store selected, in the grid view
InitSeries ==
  /\ IsSeriesStore(dashboardExperiments)
  /\ selectedExperiments = [n \in 1..MaxSeries |-> dashboardExperiments[n].id]
  /\ activeView = "grid"
  /\ now = MaxSeries
  /\ operations = 0
  /\ DialogsIdle
  /\ Unmounted

NextSeries ==
  \/ \E view \in {"grid", "compare"} : SetActiveView(view)
  \/ \E n \in 1..Len(dashboardExperiments) :
       HandleSelectExperiment(dashboardExperiments[n].id, FALSE)
  \/ \E metric \in Metrics : (activeView = "compare" /\ SetComparisonMetric(metric))

SpecSeries == InitSeries /\ [][NextSeries]_vars

\* The largest number of rows in memory
MaxHeapRows == 2

\* Both panels over one experiment with at most MaxHeapRows rows
InitHeap ==
  /\ InitPlot
  /\ Len(experiments) = 1
  /\ Cardinality(RowRefs(experiments)) <= MaxHeapRows

\* the values a consumer of the records may write under a key
WrittenValues == {N(9)}

\* a consumer of plotData or chartData assigns to a field of a record it
\* was handed
WriteRecord(ref, key, val) ==
  /\ ref \in Range(plotRefs) \cup Range(chartRefs)
  /\ heap' = [heap EXCEPT ![ref] = Put(@, key, val)]
  /\ UNCHANGED <<experiments, comparisonVars, plotVars, plotRefs, chartRefs, dashboardVars>>

NextHeap ==
  \/ \E j \in 1..Len(ExperimentIds) : SetSelectedExperimentForPlot(ExperimentIds[j])
  \/ \E column \in Columns : SetXAxis(column)
  \/ \E column \in Columns : SetYAxis(column)
  \/ \E metric \in Metrics : SetComparisonMetric(metric)
  \/ \E ref \in DOMAIN heap, val \in WrittenValues : WriteRecord(ref, "v", val)

SpecHeap == InitHeap /\ [][NextHeap]_vars

----------------------------------------------------------------------------
(* Vocabulary of the properties, stated on rows and records directly *)

\* the cell of a row at a column has numeric type
NumericAt(row, col) == \E j \in 1..Len(row) : row[j].key = col /\ row[j].val.type = "number"

\* the row has the column as a key
PresentAt(row, col) == \E j \in 1..Len(row) : row[j].key = col

\* the position of a column among the keys of a row
PositionIn(row, col) == CHOOSE j \in 1..Len(row) : row[j].key = col

\* the dataset has a first row and that row has the metric as a key
Contributes(exp, metric) ==
  exp.data.defined /\ Len(exp.data.rows) >= 1 /\ PresentAt(exp.data.rows[1], metric)

\* the positions in the list of the datasets that contribute
Contributing(exps, metric) == {j \in 1..Len(exps) : Contributes(exps[j], metric)}

\* the names, other than the index field, that are keys of some record
ValueKeys(records) ==
  UNION {DOMAIN records[j] : j \in 1..Len(records)} \ {"index"}

\* the largest element of a non-empty set of naturals, 0 for the empty set
Largest(set) == IF set = {} THEN 0 ELSE CHOOSE x \in set : \A y \in set : y <= x

----------------------------------------------------------------------------
(* C1 - the names that appear as value keys in the aligned records are     *)
(* exactly the names of the datasets whose first row holds a number at the *)
(* metric; a dataset whose first row holds text there contributes no key.  *)
(* The code keeps every dataset whose first row has the key, whatever the  *)
(* type of the value, so this is violated.                                 *)
C1_NamesAreNumericFirstRow ==
  comparisonMetric # "" =>
    \A nm \in Names \ {"index"} :
      nm \in ValueKeys(chartData) <=>
        \E j \in 1..Len(experiments) :
          /\ experiments[j].name = nm
          /\ experiments[j].data.defined
          /\ Len(experiments[j].data.rows) >= 1
          /\ NumericAt(experiments[j].data.rows[1], comparisonMetric)

----------------------------------------------------------------------------
(* C2 - the numeric columns of a dataset are read off its first row only:  *)
(* none for a dataset without rows, otherwise the keys of row 0 that hold  *)
(* a number, in the key order of row 0, whatever the other rows hold; the  *)
(* same for what each dataset adds to the comparison metric selector.      *)

\* cols lists, without repetition and in the row's key order, the numeric keys of row
ListsNumericKeysOf(cols, row) ==
  /\ \A col \in Columns \cup Metrics : (\E j \in 1..Len(cols) : cols[j] = col) <=> NumericAt(row, col)
  /\ \A j, h \in 1..Len(cols) : j < h => PositionIn(row, cols[j]) < PositionIn(row, cols[h])

\* the list with the rows of the experiment at position j replaced
WithRows(exps, j, rows) == [exps EXCEPT ![j].data = Data(rows)]

C2_NumericColumnsFromFirstRow ==
  /\ \A j \in 1..Len(experiments) :
       experiments[j].id = selectedExperimentForPlot =>
         LET rows == experiments[j].data.rows
         IN IF Len(rows) = 0 THEN availableColumns = <<>>
            ELSE /\ ListsNumericKeysOf(availableColumns, rows[1])
                 /\ AvailableColumns(WithRows(experiments, j, <<rows[1]>>), selectedExperimentForPlot)
                      = availableColumns
                 /\ \A row \in RowSet :
                      /\ AvailableColumns(WithRows(experiments, j, Append(rows, row)),
                                          selectedExperimentForPlot) = availableColumns
                      /\ AvailableColumns(WithRows(experiments, j, <<rows[1], row>>),
                                          selectedExperimentForPlot) = availableColumns
  /\ \A col \in Columns \cup Metrics :
       (\E j \in 1..Len(allDataColumns) : allDataColumns[j] = col) <=>
         \E j \in 1..Len(experiments) :
           /\ Len(experiments[j].data.rows) >= 1
           /\ NumericAt(experiments[j].data.rows[1], col)
  /\ \A j, h \in 1..Len(allDataColumns) : j # h => allDataColumns[j] # allDataColumns[h]

\* the selected dataset has a second row whose cell at "t" is text while row 0
\* holds numbers at "v" and "t", in that key order
C2_Witness ==
  \E j \in 1..Len(experiments) :
    /\ experiments[j].id = selectedExperimentForPlot
    /\ Len(experiments[j].data.rows) >= 2
    /\ experiments[j].data.rows[1] = <<KV("v", N(3)), KV("t", N(2))>>
    /\ experiments[j].data.rows[2] = <<KV("t", S("a")), KV("v", N(2))>>
    /\ availableColumns = <<"v", "t">>

----------------------------------------------------------------------------
(* C3 - the number of aligned records is the largest row count among the   *)
(* contributing datasets (those whose first row has the metric as a key),  *)
(* and 0 when no dataset contributes.                                      *)
C3_LengthIsMaxRowCount ==
  Len(chartData) =
    Largest({Len(experiments[j].data.rows) : j \in Contributing(experiments, comparisonMetric)})

\* two contributing datasets, the second one longer than the first
C3_Witness ==
  /\ Len(experiments) = 2
  /\ Contributing(experiments, comparisonMetric) = {1, 2}
  /\ Len(experiments[1].data.rows) < Len(experiments[2].data.rows)
  /\ Len(chartData) = Len(experiments[2].data.rows)

----------------------------------------------------------------------------
(* C4 - for every index i below the number of records and every            *)
(* contributing dataset d, record i holds d.rows[i][metric] under d's name *)
(* when d has a row i and holds nothing under d's name when it has none.   *)

\* The statement as written, for every contributing dataset; the name "index"
\* is left to C5, which is about the clash with the index field
C4_SlotPerDataset ==
  \A i \in 1..Len(chartData) : \A j \in Contributing(experiments, comparisonMetric) :
    LET d == experiments[j]
    IN d.name # "index" =>
         IF i <= Len(d.data.rows)
         THEN /\ d.name \in DOMAIN chartData[i]
              /\ chartData[i][d.name] = Get(d.data.rows[i], comparisonMetric)
         ELSE d.name \notin DOMAIN chartData[i]

\* no other contributing dataset carries the name of the one at position j
NameUnique(exps, metric, j) ==
  \A h \in Contributing(exps, metric) : h # j => exps[h].name # exps[j].name

\* Amended: for a contributing dataset whose name no other contributing
\* dataset carries, record i holds d.rows[i][metric] under d's name when d has
\* a row i; when it has none, d writes nothing: the name is no key of the
\* record, except that under the name "index" the record's own index remains.
C4_SlotPerUniquelyNamedDataset ==
  \A i \in 1..Len(chartData) : \A j \in Contributing(experiments, comparisonMetric) :
    LET d == experiments[j]
    IN NameUnique(experiments, comparisonMetric, j) =>
         IF i <= Len(d.data.rows)
         THEN /\ d.name \in DOMAIN chartData[i]
              /\ chartData[i][d.name] = Get(d.data.rows[i], comparisonMetric)
         ELSE IF d.name = "index"
              THEN chartData[i]["index"] = N(i - 1)
              ELSE d.name \notin DOMAIN chartData[i]

\* datasets "A" and "B" both contribute, "A" is the shorter one, and the last
\* record holds a value under "B" and nothing under "A"
C4_Witness ==
  /\ Len(experiments) = 2
  /\ Contributing(experiments, comparisonMetric) = {1, 2}
  /\ experiments[1].name = "A" /\ experiments[2].name = "B"
  /\ Len(experiments[1].data.rows) < Len(experiments[2].data.rows)
  /\ Len(chartData) = Len(experiments[2].data.rows)
  /\ DOMAIN chartData[Len(chartData)] = {"index", "B"}
  /\ DOMAIN chartData[1] = {"index", "A", "B"}

----------------------------------------------------------------------------
(* C5 - the record at position i holds an index field equal to i, whatever *)
(* the names of the datasets, a dataset named "index" included.  The code  *)
(* writes the value of such a dataset over the index field.                *)
C5_IndexFieldIsPosition ==
  \A i \in 1..Len(chartData) :
    /\ "index" \in DOMAIN chartData[i]
    /\ chartData[i]["index"] = N(i - 1)

----------------------------------------------------------------------------
(* C6 - when two contributing datasets carry the same name, the slot under *)
(* that name in every record is the one of the dataset that comes last in  *)
(* the list: its row-i value where it has a row i, absent where it has     *)
(* none, never the value of the earlier dataset.                           *)

\* the contributing datasets that carry the name
Carrying(exps, metric, nm) == {j \in Contributing(exps, metric) : exps[j].name = nm}

\* The statement as written; the name "index" is left to C5
C6_LastDatasetOwnsSlot ==
  \A nm \in Names \ {"index"} :
    LET same == Carrying(experiments, comparisonMetric, nm)
    IN Cardinality(same) >= 2 =>
         LET last == experiments[Largest(same)]
         IN \A i \in 1..Len(chartData) :
              IF i <= Len(last.data.rows)
              THEN /\ nm \in DOMAIN chartData[i]
                   /\ chartData[i][nm] = Get(last.data.rows[i], comparisonMetric)
              ELSE nm \notin DOMAIN chartData[i]

\* Amended: the last write wins. The slot under a shared name holds, in
\* record i, the row-i value of the last dataset in list order among those of
\* that name that have a row i; where none of them has a row i nothing is
\* written under the name (no such key, or the index i under the name "index").
C6_LastWriteWins ==
  \A nm \in Names :
    LET same == Carrying(experiments, comparisonMetric, nm)
    IN Cardinality(same) >= 2 =>
         \A i \in 1..Len(chartData) :
           LET writers == {j \in same : i <= Len(experiments[j].data.rows)}
           IN IF writers # {}
              THEN /\ nm \in DOMAIN chartData[i]
                   /\ chartData[i][nm] =
                        Get(experiments[Largest(writers)].data.rows[i], comparisonMetric)
              ELSE IF nm = "index"
                   THEN chartData[i]["index"] = N(i - 1)
                   ELSE nm \notin DOMAIN chartData[i]

\* two contributing datasets named "A", the first one longer: record 0 holds
\* the value of the second, which differs from the first's, and record 1 the
\* value of the first
C6_Witness ==
  /\ Len(experiments) = 2
  /\ Contributing(experiments, comparisonMetric) = {1, 2}
  /\ experiments[1].name = "A" /\ experiments[2].name = "A"
  /\ Len(experiments[1].data.rows) = 2 /\ Len(experiments[2].data.rows) = 1
  /\ Get(experiments[1].data.rows[1], comparisonMetric)
       # Get(experiments[2].data.rows[1], comparisonMetric)
  /\ chartData[1]["A"] = Get(experiments[2].data.rows[1], comparisonMetric)
  /\ chartData[2]["A"] = Get(experiments[1].data.rows[2], comparisonMetric)

----------------------------------------------------------------------------
(* Vocabulary of the statistics properties *)

\* the dataset a statistics entry is about
DatasetOf(entry) == experiments[CHOOSE j \in 1..Len(experiments) : experiments[j].id = entry.key]

\* the positions of the rows whose cell at the metric is a number
NumericRows(exp, metric) == {j \in 1..Len(exp.data.rows) : NumericAt(exp.data.rows[j], metric)}

\* the number in the cell of a row at a column
CellNum(row, col) == row[PositionIn(row, col)].val.num

\* the sum of the numeric cells of the first k rows
RECURSIVE SumCells(_, _, _)
SumCells(exp, metric, k) ==
  IF k = 0 THEN 0
  ELSE SumCells(exp, metric, k - 1)
       + (IF k \in NumericRows(exp, metric) THEN CellNum(exp.data.rows[k], metric) ELSE 0)

\* the sum of (x * den - num)^2 over the numeric cells x of the first k rows
RECURSIVE SumSquares(_, _, _, _, _)
SumSquares(exp, metric, k, num, den) ==
  IF k = 0 THEN 0
  ELSE SumSquares(exp, metric, k - 1, num, den)
       + (IF k \in NumericRows(exp, metric)
          THEN (CellNum(exp.data.rows[k], metric) * den - num)
               * (CellNum(exp.data.rows[k], metric) * den - num)
          ELSE 0)

----------------------------------------------------------------------------
(* C7 - the count of a statistics entry is the number of rows of its       *)
(* dataset whose cell at the metric has numeric type; rows where the       *)
(* metric is missing or holds text are not counted.                        *)
C7_CountIsNumericRows ==
  \A e \in 1..Len(summary) :
    summary[e].count = Cardinality(NumericRows(DatasetOf(summary[e]), comparisonMetric))

\* an entry for a dataset of three rows, one with text at the metric and one
\* without the metric: its count is 1
C7_Witness ==
  \E e \in 1..Len(summary) :
    LET rows == DatasetOf(summary[e]).data.rows
    IN /\ Len(rows) = 3
       /\ \E j \in 1..3 : PresentAt(rows[j], comparisonMetric) /\ ~NumericAt(rows[j], comparisonMetric)
       /\ \E j \in 1..3 : ~PresentAt(rows[j], comparisonMetric)
       /\ summary[e].count = 1

----------------------------------------------------------------------------
(* C8 - there is exactly one statistics entry per contributing dataset, in *)
(* list order, and for a non-empty metric the statistics table, the chart  *)
(* lines and the aligned records are about the same datasets.              *)
C8_SameContributingFilter ==
  LET ids == SelectSeq([j \in 1..Len(experiments) |-> j],
                       LAMBDA j : Contributes(experiments[j], comparisonMetric))
  IN /\ Len(summary) = Len(ids)
     /\ \A e \in 1..Len(summary) : summary[e].key = experiments[ids[e]].id
     /\ comparisonMetric # "" =>
          /\ Len(lineSeries) = Len(summary)
          /\ \A e \in 1..Len(summary) :
               /\ lineSeries[e].key = summary[e].key
               /\ lineSeries[e].dataKey = summary[e].name
          /\ ValueKeys(chartData) = {summary[e].name : e \in 1..Len(summary)} \ {"index"}

\* of two datasets the second one alone contributes: one entry, one line and
\* one value key, all of the second dataset
C8_Witness ==
  /\ Len(experiments) = 2
  /\ comparisonMetric # ""
  /\ Contributing(experiments, comparisonMetric) = {2}
  /\ Len(experiments[1].data.rows) >= 1
  /\ Len(summary) = 1 /\ summary[1].key = "2"
  /\ Len(lineSeries) = 1 /\ lineSeries[1].key = "2"
  /\ ValueKeys(chartData) = {experiments[2].name}

----------------------------------------------------------------------------
(* C9 - for a dataset with at least one number at the metric, min and max  *)
(* are the smallest and the largest of the cells of numeric type; text and *)
(* missing cells take no part.                                             *)
C9_MinMaxOverNumericCells ==
  \A e \in 1..Len(summary) :
    LET d == DatasetOf(summary[e])
        kept == {CellNum(d.data.rows[j], comparisonMetric) : j \in NumericRows(d, comparisonMetric)}
    IN kept # {} =>
         /\ summary[e].min.kind = "fin" /\ summary[e].min.den = 1
         /\ summary[e].min.num \in kept
         /\ \A x \in kept : summary[e].min.num <= x
         /\ summary[e].max.kind = "fin" /\ summary[e].max.den = 1
         /\ summary[e].max.num \in kept
         /\ \A x \in kept : x <= summary[e].max.num

\* an entry with min 1 and max 3 for a dataset that also has a text cell at
\* the metric
C9_Witness ==
  \E e \in 1..Len(summary) :
    LET d == DatasetOf(summary[e])
    IN /\ \E j \in 1..Len(d.data.rows) :
            PresentAt(d.data.rows[j], comparisonMetric) /\ ~NumericAt(d.data.rows[j], comparisonMetric)
       /\ summary[e].min = Fin(1, 1)
       /\ summary[e].max = Fin(3, 1)

----------------------------------------------------------------------------
(* C10 - for a dataset with count > 0 numbers at the metric, mean is their *)
(* sum divided by count and stddev is the population standard deviation:   *)
(* the root of the sum of the squared deviations from the mean divided by  *)
(* count; the values 1, 2, 3 give count 3, mean 2 and variance 2/3.        *)
C10_MeanAndPopulationStdDev ==
  \A e \in 1..Len(summary) :
    LET d == DatasetOf(summary[e])
        n == Cardinality(NumericRows(d, comparisonMetric))
        k == Len(d.data.rows)
        avg == summary[e].avg
        dev == summary[e].stdDev
    IN n > 0 =>
         /\ avg.kind = "fin"
         /\ avg.num * n = avg.den * SumCells(d, comparisonMetric, k)
         /\ dev.kind = "sqrt"
         /\ dev.num * n * avg.den * avg.den
              = dev.den * SumSquares(d, comparisonMetric, k, avg.num, avg.den)
         /\ (n = 3 /\ {CellNum(d.data.rows[j], comparisonMetric) :
                         j \in NumericRows(d, comparisonMetric)} = {1, 2, 3})
              => /\ summary[e].count = 3
                 /\ avg = [kind |-> "fin", num |-> 2, den |-> 1]
                 /\ dev = [kind |-> "sqrt", num |-> 2, den |-> 3]

\* an entry for a dataset whose cells at the metric are the numbers 1, 2, 3
C10_Witness ==
  \E e \in 1..Len(summary) :
    LET d == DatasetOf(summary[e])
    IN /\ Cardinality(NumericRows(d, comparisonMetric)) = 3
       /\ {CellNum(d.data.rows[j], comparisonMetric) : j \in NumericRows(d, comparisonMetric)}
            = {1, 2, 3}
       /\ summary[e].avg = [kind |-> "fin", num |-> 2, den |-> 1]
       /\ summary[e].stdDev = [kind |-> "sqrt", num |-> 2, den |-> 3]

----------------------------------------------------------------------------
(* C11 - for a contributing dataset with no number at the metric (count 0) *)
(* min, max, mean and stddev are all the NaN sentinel, none of them an     *)
(* infinity.  The code takes Math.min and Math.max of no argument, which   *)
(* are +Infinity and -Infinity.                                            *)
C11_ZeroCountIsNaN ==
  \A e \in 1..Len(summary) :
    summary[e].count = 0 =>
      /\ summary[e].min = NaN
      /\ summary[e].max = NaN
      /\ summary[e].avg = NaN
      /\ summary[e].stdDev = NaN

----------------------------------------------------------------------------
\* the positions of the experiments the plot selection names that have rows
Plotted == {j \in 1..Len(experiments) :
              /\ experiments[j].id = selectedExperimentForPlot
              /\ experiments[j].data.defined
              /\ Len(experiments[j].data.rows) >= 1}

(* C12 - with a dataset of n rows selected and both axes chosen, the plot   *)
(* projection has n records in row order; record i holds index = i, the    *)
(* row's x value, the row's y value and every other field of row i, index  *)
(* = i also when the row has a field named "index".  The code spreads the  *)
(* row over the record last, so the row's own "index" replaces i.          *)
C12_RecordPerRowWithIndex ==
  \A j \in Plotted :
    (xAxis # "" /\ yAxis # "") =>
      LET rows == experiments[j].data.rows
      IN /\ Len(plotData) = Len(rows)
         /\ \A i \in 1..Len(rows) :
              /\ plotData[i]["index"] = N(i - 1)
              /\ xAxis # "index" => plotData[i][xAxis] = Get(rows[i], xAxis)
              /\ yAxis # "index" => plotData[i][yAxis] = Get(rows[i], yAxis)
              /\ \A k \in 1..Len(rows[i]) :
                   rows[i][k].key # "index" =>
                     /\ rows[i][k].key \in DOMAIN plotData[i]
                     /\ plotData[i][rows[i][k].key] = rows[i][k].val

----------------------------------------------------------------------------
(* C13 - a column that is no key of the first row of the selected dataset  *)
(* makes the plot projection empty, and a metric that is no key of the     *)
(* first row of any dataset makes the aligned series and the statistics    *)
(* empty.  The plot projection does not look the column up: it returns one *)
(* record per row with undefined under the column.                         *)
C13_UnknownColumnIsEmpty ==
  /\ \A j \in Plotted :
       (/\ xAxis # ""
        /\ yAxis # ""
        /\ \/ ~PresentAt(experiments[j].data.rows[1], xAxis)
           \/ ~PresentAt(experiments[j].data.rows[1], yAxis)) => plotData = <<>>
  /\ \A metric \in Metrics :
       Contributing(experiments, metric) = {} =>
         /\ ChartData(experiments, metric) = <<>>
         /\ Summary(experiments, metric) = <<>>

----------------------------------------------------------------------------
\* no experiment of the list has a row
NoRows(exps) == \A j \in 1..Len(exps) : ~(exps[j].data.defined /\ Len(exps[j].data.rows) >= 1)

(* C14 - degenerate inputs give the empty form: with an empty list or a    *)
(* list whose datasets have no row, the numeric columns of both panels,    *)
(* the plot projection, the aligned series and the statistics are empty;   *)
(* with no metric the aligned series and the statistics are empty; with no *)
(* x or no y column, or a selected dataset without rows, the plot          *)
(* projection is empty.                                                    *)
C14_DegenerateInputsGiveEmpty ==
  /\ NoRows(experiments) =>
       /\ allDataColumns = <<>>
       /\ availableColumns = <<>>
       /\ plotData = <<>>
       /\ \A metric \in Metrics \cup {""} :
            /\ ChartData(experiments, metric) = <<>>
            /\ Summary(experiments, metric) = <<>>
  /\ comparisonMetric = "" => (chartData = <<>> /\ summary = <<>>)
  /\ (xAxis = "" \/ yAxis = "") => plotData = <<>>
  /\ Plotted = {} => (availableColumns = <<>> /\ plotData = <<>>)

\* a dataset with rows is selected and x is chosen, y is not
C14_Witness ==
  /\ Plotted # {}
  /\ xAxis = "t"
  /\ yAxis = ""
  /\ plotData = <<>>
  /\ \E j \in 1..Len(experiments) :
       experiments[j].id # selectedExperimentForPlot /\ experiments[j].data = Data(<<>>)

----------------------------------------------------------------------------
\* the number of contributing datasets in front of position j
SeriesPosition(exps, metric, j) == Cardinality({h \in Contributing(exps, metric) : h < j})

\* the colour of the series of the dataset with the id
StrokeOf(series, id) == series[CHOOSE k \in 1..Len(series) : series[k].key = id].stroke

(* C15 - the series are the contributing datasets in list order and the    *)
(* i-th of them (from 0) has the palette entry at i mod 6 of the six       *)
(* colours; for the list without an earlier contributing dataset, every    *)
(* contributing dataset after it has the palette entry one back and so     *)
(* another colour.                                                         *)
C15_ColourByPosition ==
  /\ Len(colors) = 6
  /\ Len(lineSeries) = Cardinality(Contributing(experiments, comparisonMetric))
  /\ \A h \in Contributing(experiments, comparisonMetric) :
       LET i == SeriesPosition(experiments, comparisonMetric, h)
       IN /\ lineSeries[i + 1].key = experiments[h].id
          /\ lineSeries[i + 1].stroke = colors[(i % 6) + 1]
          /\ \A j \in Contributing(experiments, comparisonMetric) :
               j < h =>
                 LET rest == SelectSeq(experiments, LAMBDA exp : exp.id # experiments[j].id)
                     after == StrokeOf(LineSeries(rest, comparisonMetric,
                                                  ChartData(rest, comparisonMetric)),
                                       experiments[h].id)
                 IN /\ after = colors[((i - 1) % 6) + 1]
                    /\ after # lineSeries[i + 1].stroke

\* seven series, the seventh with the first colour again, after a dataset
\* that does not contribute and after one has left the list
C15_Witness ==
  /\ activeView = "compare"
  /\ comparisonMetric = "v"
  /\ Len(dashboardExperiments) = 9
  /\ Len(experiments) = 8
  /\ experiments[1] = dashboardExperiments[2]
  /\ Contributing(experiments, comparisonMetric) = (1..8) \ {2}
  /\ Len(lineSeries) = 7
  /\ lineSeries[7].key = "3"
  /\ lineSeries[7].stroke = colors[1]
  /\ lineSeries[2].key = experiments[3].id

----------------------------------------------------------------------------
\* the row behind a row reference
RowAt(r) == experiments[CHOOSE e \in 1..Len(experiments) : experiments[e].id = r.owner].data.rows[r.idx]

(* C17 - the operations leave their inputs alone and return new objects:   *)
(* no step changes the list of experiments, every row object in memory     *)
(* holds the fields of its row whatever has been computed or written into  *)
(* a returned record, and no reference of a returned record is the         *)
(* reference of a row.                                                     *)
C17_InputsUnchangedRecordsFresh ==
  /\ [][experiments' = experiments]_vars
  /\ [](\A r \in RowRefs(experiments) : r \in DOMAIN heap /\ heap[r] = RowObject(RowAt(r)))
  /\ [](\A r \in Range(plotRefs) \cup Range(chartRefs) : r \notin RowRefs(experiments))

\* a record projected from a row and a record aligned from it have been
\* written to, the row holds what it held
C17_Witness ==
  /\ Len(plotRefs) >= 1
  /\ Len(chartRefs) >= 1
  /\ "v" \in DOMAIN heap[plotRefs[1]] /\ heap[plotRefs[1]]["v"] = N(9)
  /\ "v" \in DOMAIN heap[chartRefs[1]] /\ heap[chartRefs[1]]["v"] = N(9)
  /\ "v" \in DOMAIN plotData[1] /\ plotData[1]["v"] = N(1)
  /\ \E r \in RowRefs(experiments) :
       r.owner = selectedExperimentForPlot /\ r.idx = 1 /\ heap[r] = RowObject(RowAt(r))

----------------------------------------------------------------------------
(* C18 - memoized results are never stale: an upload puts the uploaded row *)
(* sequence into the store under the id of its card, and whatever a        *)
(* mounted panel shows, the numeric columns, the plot projection, the      *)
(* aligned series and the statistics, is what its operations give on the   *)
(* store as it is now.                                                     *)
C18_MemoNeverStale ==
  /\ [][\A id \in StoreIds, data \in UploadedData :
          HandleDataUpload(id, data) =>
            \A j \in 1..Len(dashboardExperiments') :
              dashboardExperiments'[j].id = id => dashboardExperiments'[j].data = data]_vars
  /\ [](activeView = "plot" =>
          /\ availableColumns = AvailableColumns(dashboardExperiments, selectedExperimentForPlot)
          /\ plotData = PlotData(dashboardExperiments, selectedExperimentForPlot, xAxis, yAxis))
  /\ [](activeView = "compare" =>
          LET compared == PanelProps("compare", dashboardExperiments, selectedExperiments)
          IN /\ allDataColumns = AllDataColumns(compared)
             /\ chartData = ChartData(compared, comparisonMetric)
             /\ lineSeries = LineSeries(compared, comparisonMetric, chartData)
             /\ summary = Summary(compared, comparisonMetric))

\* the plot of an experiment whose rows an upload has put in place
C18_Witness ==
  /\ activeView = "plot"
  /\ selectedExperimentForPlot = "2"
  /\ xAxis = "t"
  /\ yAxis = "v"
  /\ dashboardExperiments[2].data \in UploadedData
  /\ Len(plotData) = 2
  /\ plotData[2]["v"] = N(2)
  /\ operations >= 2

----------------------------------------------------------------------------
\* the experiment that was at position k, after a step that may have put new
\* experiments in front
Later(k) == dashboardExperiments'[k + Len(dashboardExperiments') - Len(dashboardExperiments)]

(* C19 - as written: no step of the store changes the id or the name of an *)
(* experiment that is in it.  Saving the edit form writes the form's name. *)
C19_IdAndNameNeverChange ==
  [][/\ Len(dashboardExperiments') >= Len(dashboardExperiments)
     /\ \A k \in 1..Len(dashboardExperiments) :
          /\ Later(k).id = dashboardExperiments[k].id
          /\ Later(k).name = dashboardExperiments[k].name]_vars

(* C19 amended - no step of the store changes the id of an experiment that *)
(* is in it, and its name changes only when the edit form is saved for its *)
(* id, to the name the form holds.                                         *)
C19_IdStableNameChangedByEdit ==
  [][/\ Len(dashboardExperiments') >= Len(dashboardExperiments)
     /\ \A k \in 1..Len(dashboardExperiments) :
          /\ Later(k).id = dashboardExperiments[k].id
          /\ Later(k).name # dashboardExperiments[k].name =>
               \E editForm \in EditForms :
                 /\ HandleSaveEdit(dashboardExperiments[k].id, editForm)
                 /\ Later(k).name = editForm.name]_vars

\* an experiment renamed by an edit, behind a copy made of it before
C19_Witness ==
  /\ Len(dashboardExperiments) = 4
  /\ dashboardExperiments[1].name = "Battery Performance Test v1 (Copy)"
  /\ dashboardExperiments[2].id = "1"
  /\ dashboardExperiments[2].name = "Renamed"
  /\ dashboardExperiments[2].tags = <<"x", "y">>

----------------------------------------------------------------------------
(* C20 - an upload from the card of an experiment puts the uploaded row    *)
(* sequence in place of that experiment's rows and keeps its id, name,     *)
(* status, tags and custom columns; every other experiment, a copy made of *)
(* the target before included, and the order of the list stay as they are. *)
(* Two experiments made in the same ms have one id, and an upload to one    *)
(* replaces the rows of both.                                              *)
C20_UploadChangesTargetOnly ==
  [][\A target \in 1..Len(dashboardExperiments), data \in UploadedData :
       HandleDataUpload(dashboardExperiments[target].id, data) =>
         /\ Len(dashboardExperiments') = Len(dashboardExperiments)
         /\ dashboardExperiments'[target].data = data
         /\ \A f \in {"id", "name", "status", "tags", "customColumns"} :
              dashboardExperiments'[target][f] = dashboardExperiments[target][f]
         /\ \A other \in 1..Len(dashboardExperiments) :
              other # target => dashboardExperiments'[other] = dashboardExperiments[other]]_vars

----------------------------------------------------------------------------
\* the column is one of the columns offered as axes
Offered(column) == \E j \in 1..Len(availableColumns) : availableColumns[j] = column

(* C21 - in the plot panel, whenever the plot data is not empty the x       *)
(* column and the y column are both among the numeric columns of the       *)
(* experiment selected now.  Selecting another experiment keeps xAxis and  *)
(* yAxis as they were chosen for the one before.                           *)
C21_AxesAreOffered ==
  plotData # <<>> => (Offered(xAxis) /\ Offered(yAxis))

(* C22 - in the upload dialog parsed data is present only while a file is  *)
(* recorded as uploaded and no parse is in progress: a parse that          *)
(* completes after the file was cleared or the dialog closed brings no     *)
(* parsed data back.                                                       *)
C22_ParsedOnlyWithFileAndIdle ==
  parsedData.present => (uploadedFile.present /\ ~isProcessing)

\* the parse of the file recorded as uploaded has not completed: the file
\* accepted last is the last in the queue, older parses complete before it
CurrentParseInFlight == uploadedFile.present /\ pendingParses # <<>>

(* C23 - in the upload dialog, while a file is recorded as uploaded, the   *)
(* parsed data the dialog holds was generated for that file, and the       *)
(* processing flag is true as long as the parse of that file has not       *)
(* completed: a parse of an older file that completes in between installs  *)
(* nothing and leaves the flag true.                                       *)
C23_ParsedDataOfCurrentFile ==
  /\ (uploadedFile.present /\ parsedData.present) => parsedData.madeFor = uploadedFile
  /\ CurrentParseInFlight => isProcessing

\* the MIME type is one of the three spreadsheet and CSV types
SpreadsheetType(file) ==
  \/ file.type = "application/vnd.ms-excel"
  \/ file.type = "application/vnd.openxmlformats-officedocument.spreadsheetml.sheet"
  \/ file.type = "text/csv"

\* the name ends in .xls, .xlsx or .csv, in capitals or not
SpreadsheetName(file) ==
  LET n == Len(file.name)
      last(k) == IF n >= k THEN ToLowerCase(SubSeq(file.name, n - k + 1, n)) ELSE <<>>
  IN \/ last(4) = <<".", "x", "l", "s">>
     \/ last(4) = <<".", "c", "s", "v">>
     \/ last(5) = <<".", "x", "l", "s", "x">>

(* C24 - a file handed to the upload dialog whose MIME type is none of the *)
(* three accepted types and whose name does not end in .xls, .xlsx or .csv *)
(* is rejected: the uploaded file, the parsed data and the processing flag *)
(* stay as they are, no parse starts and the store is not touched.  A file *)
(* that passes either test is recorded as uploaded, the flag is set and    *)
(* its parse starts.                                                       *)
C24_RejectedFileChangesNothing ==
  [][\A file \in Files :
       HandleFiles(<<file>>) =>
         IF SpreadsheetType(file) \/ SpreadsheetName(file)
         THEN /\ uploadedFile' = file
              /\ isProcessing'
              /\ pendingParses' = Append(pendingParses, file)
         ELSE /\ UNCHANGED <<uploadedFile, parsedData, isProcessing, pendingParses>>
              /\ UNCHANGED dashboardExperiments]_vars

\* after a file was rejected, a file with no MIME type and a name in
\* capitals has been accepted and is being parsed
C24_Witness ==
  /\ toastTitle = "Invalid file type"
  /\ uploadedFile.present
  /\ uploadedFile.type = ""
  /\ isProcessing
  /\ pendingParses = <<uploadedFile>>

\* the experiment of the card whose dialog is followed, after the step
DialogExperimentLater ==
  dashboardExperiments'[CHOOSE j \in 1..Len(dashboardExperiments') :
                          dashboardExperiments'[j].id = DialogCard]

C26_IdsPairwiseDistinct ==
  \A j, k \in 1..Len(dashboardExperiments) :
    j # k => dashboardExperiments[j].id # dashboardExperiments[k].id

\* the experiments of the store that are selected: those whose id is in the
\* selection list
SelectedInStore ==
  {j \in 1..Len(dashboardExperiments) :
     Includes(selectedExperiments, dashboardExperiments[j].id)}

(* C27 - the selection list holds no id twice, and the count shown on the  *)
(* Compare button, the length of the list, is the number of experiments    *)
(* that are selected.                                                      *)
C27_SelectionHasNoIdTwice ==
  /\ \A j, k \in 1..Len(selectedExperiments) :
       j # k => selectedExperiments[j] # selectedExperiments[k]
  /\ Len(selectedExperiments) = Cardinality(SelectedInStore)

\* ComparisonPanel is rendered
ComparisonDisplayed == activeView = "compare" /\ Len(selectedExperiments) >= 2

(* C28 - the compare view is active only while at least two experiments    *)
(* are selected, and whenever ComparisonPanel is rendered the list it is   *)
(* handed is the store filtered by the selection, has at least two         *)
(* experiments and two of them differ in their id.                         *)
C28_ComparisonGetsAtLeastTwo ==
  /\ activeView = "compare" => Len(selectedExperiments) >= 2
  /\ ComparisonDisplayed =>
       /\ experiments = [n \in 1..Cardinality(SelectedInStore) |->
                          dashboardExperiments[
                            CHOOSE j \in SelectedInStore :
                              Cardinality({h \in SelectedInStore : h < j}) = n - 1]]
       /\ Len(experiments) >= 2
       /\ \E j, k \in 1..Len(experiments) : experiments[j].id # experiments[k].id

\* the panel is shown with more experiments than ids are selected: two of
\* them are copies made within one millisecond
C28_Witness ==
  /\ ComparisonDisplayed
  /\ Len(experiments) > Len(selectedExperiments)

(* C29 - duplicating an experiment of the store puts exactly one new       *)
(* experiment in front of the list: its name is the name of the duplicated *)
(* experiment followed by " (Copy)", its status is draft, and its          *)
(* description, tags, custom columns and data are those of the duplicated  *)
(* experiment; the experiments that were there follow unchanged and in     *)
(* their order.  Duplicating an id that no experiment has leaves the store *)
(* as it is.                                                               *)
C29_DuplicateAddsCopyAtHead ==
  [][/\ \A k \in 1..Len(dashboardExperiments), elapsed \in Elapsed :
         HandleDuplicateExperiment(dashboardExperiments[k].id, elapsed) =>
           /\ Len(dashboardExperiments') = Len(dashboardExperiments) + 1
           /\ Tail(dashboardExperiments') = dashboardExperiments
           /\ Head(dashboardExperiments').name = dashboardExperiments[k].name \o " (Copy)"
           /\ Head(dashboardExperiments').status = "draft"
           /\ Head(dashboardExperiments').description = dashboardExperiments[k].description
           /\ Head(dashboardExperiments').tags = dashboardExperiments[k].tags
           /\ Head(dashboardExperiments').customColumns = dashboardExperiments[k].customColumns
           /\ Head(dashboardExperiments').data = dashboardExperiments[k].data
     /\ \A elapsed \in Elapsed :
         HandleDuplicateExperiment("0", elapsed) =>
           dashboardExperiments' = dashboardExperiments]_vars

\* the name the form holds is empty or blanks only
BlankName == \A j \in 1..Len(formData.name) : formData.name[j] = " "

(* C30 - while the name of the create form is empty or blanks only, no     *)
(* step creates an experiment or changes the store.  A step that creates   *)
(* one puts exactly one experiment in front of the store, with the name,   *)
(* description, status, tags and custom columns the form held, closes the  *)
(* dialog and leaves the form empty.  The tags of the form never hold a    *)
(* tag twice and never a blank tag.                                        *)
C30_SubmitCreatesFromFilledForm ==
  /\ [][BlankName => (operations' = operations
                       /\ dashboardExperiments' = dashboardExperiments)]_vars
  /\ [][operations' # operations =>
          /\ Len(dashboardExperiments') = Len(dashboardExperiments) + 1
          /\ Tail(dashboardExperiments') = dashboardExperiments
          /\ Head(dashboardExperiments').name = StringOf(formData.name)
          /\ Head(dashboardExperiments').description = formData.description
          /\ Head(dashboardExperiments').status = formData.status
          /\ Head(dashboardExperiments').tags = formData.tags
          /\ Head(dashboardExperiments').customColumns = formData.customColumns
          /\ ~showCreateDialog'
          /\ formData' = EmptyForm
          /\ newTag' = <<>>]_vars
  /\ [](\A j \in 1..Len(formData.tags) :
          /\ formData.tags[j] \notin {"", " "}
          /\ \A k \in 1..Len(formData.tags) : j # k => formData.tags[j] # formData.tags[k])

\* an experiment with two tags was created from the form, and the form that
\* was reset holds a tag again while its name is blank
C30_Witness ==
  /\ Len(dashboardExperiments) = Len(InitialExperiments) + 1
  /\ dashboardExperiments[1].name = " F"
  /\ dashboardExperiments[1].tags = <<"y", "x">>
  /\ showCreateDialog
  /\ formData.name = <<" ">>
  /\ formData.tags = <<"x">>
  /\ newTag = <<" ", "x">>


====
